---- MODULE Spec2Model ----
(***************************************************************************)
(* FINITY front end: the route shell (App), its identity gate, and the     *)
(* embedded-dashboard pages (NewsBoard, PortfolioOptimization,             *)
(* CrossBorder).  Paths are sequences of segments: "/" is << >>,           *)
(* "/sign-in/factor-one" is <<"sign-in", "factor-one">>.                   *)
(***************************************************************************)
EXTENDS Naturals, Sequences, FiniteSets

VARIABLES signedIn, path, isSidebar, mode, newsMounted, iframeError,
          frameSrc, opened

vars == <<signedIn, path, isSidebar, mode, newsMounted, iframeError,
          frameSrc, opened>>

\* Length of the window.open log that is kept (older entries are dropped).
MaxOpened == 1

Pages == {"news", "portfolio", "crossborder"}

\* ---------------------------------------------------------------- URLs
stockNewsUrl == "https://web-news-iwhdvddvapstytxauebj4u.streamlit.app/?embed=true"

streamlitUrl == "https://ieteportfoliooptimisation.streamlit.app/?embed=true"

dashboardUrl == "https://itemcrossbordercomplience.streamlit.app/?embed=true"

\* The URL constant each page component declares.
PageUrl(p) ==
    CASE p = "news" -> stockNewsUrl
      [] p = "portfolio" -> streamlitUrl
      [] p = "crossborder" -> dashboardUrl

\* ------------------------------------------------------ page rendering
Elem(k, p, a) == [kind |-> k, page |-> p, arg |-> a]

\* Text of the <p> of the fallback panel of each page.
FallbackText(p) ==
    CASE p = "news" -> "Unable to embed Stock News directly."
      [] p = "portfolio" -> "Unable to embed the Portfolio Optimizer directly."
      [] p = "crossborder" -> "Unable to embed the GDP Dashboard directly."

\* src attribute of the <iframe> of page p.
IframeSrc(p) == PageUrl(p)

\* Variant: the cross-border handler opens another dashboard's URL.
OpenUrl_Other(p) == IF p = "crossborder" THEN stockNewsUrl ELSE PageUrl(p)

\* URL handed to window.open by page p's click handler.
OpenUrl(p) == PageUrl(p)

\* Variant: the negation in the conditional is dropped.
RenderPage_Inverted(p, err) ==
    IF err
      THEN {Elem("iframe", p, IframeSrc(p))}
      ELSE {Elem("message", p, FallbackText(p)),
            Elem("button", p, "Open in New Tab")}

\* Variant: the button is rendered next to the frame as well.
RenderPage_ButtonAlways(p, err) ==
    IF ~err
      THEN {Elem("iframe", p, IframeSrc(p)), Elem("button", p, "Open in New Tab")}
      ELSE {Elem("message", p, FallbackText(p)),
            Elem("button", p, "Open in New Tab")}

\* The JSX returned by page p when its error flag is err:
\* {!err ? <iframe src onError/> : <p>..</p><button onClick>Open in New Tab</button>}
RenderPage(p, err) ==
    IF ~err
      THEN {Elem("iframe", p, IframeSrc(p))}
      ELSE {Elem("message", p, FallbackText(p)),
            Elem("button", p, "Open in New Tab")}

\* ------------------------------------------------------------- routing
Route(segs, splat, element) == [segs |-> segs, splat |-> splat, element |-> element]

SignedInRoutes ==
    << Route(<< >>, FALSE, "Dashboard"),
       Route(<<"contacts">>, FALSE, "Contacts"),
       Route(<<"invoices">>, FALSE, "Invoices"),
       Route(<<"portfolio">>, FALSE, "PortfolioOptimization"),
       Route(<<"mutualfunds">>, FALSE, "MutualTear"),
       Route(<<"gdp">>, FALSE, "GdpDashboard"),
       Route(<<"crossborder">>, FALSE, "CrossBorder"),
       Route(<<"form">>, FALSE, "Form"),
       Route(<<"bar">>, FALSE, "Bar"),
       Route(<<"pie">>, FALSE, "Chatbot"),
       Route(<<"line">>, FALSE, "Line"),
       Route(<<"faq">>, FALSE, "FAQ"),
       Route(<<"calendar">>, FALSE, "Calendar") >>

SignedOutRoutes ==
    << Route(<<"sign-in">>, TRUE, "SignIn"),
       Route(<<"sign-up">>, TRUE, "SignUp"),
       Route(<< >>, TRUE, "RedirectToSignIn") >>

IsPrefix(s, t) == Len(s) <= Len(t) /\ SubSeq(t, 1, Len(s)) = s

\* Variant: every route matches as if it ended in "*".
Matches_Loose(r, pa) == IsPrefix(r.segs, pa)

\* A route matches a path when its literal segments are the whole path, or,
\* for a trailing "*", a prefix of it.
Matches(r, pa) == IF r.splat THEN IsPrefix(r.segs, pa) ELSE r.segs = pa

\* Variant: every matching route renders.
Routes_AllHits(table, pa) ==
    {table[i].element : i \in {j \in 1..Len(table) : Matches(table[j], pa)}}

\* <Routes>: the element of the best matching route (most literal segments,
\* first declared on a tie), or nothing when no route matches.
Routes(table, pa) ==
    LET hits == {i \in 1..Len(table) : Matches(table[i], pa)}
        best == {i \in hits : \A j \in hits :
                    \/ Len(table[i].segs) > Len(table[j].segs)
                    \/ Len(table[i].segs) = Len(table[j].segs) /\ i <= j}
    IN  {table[i].element : i \in best}

\* <SignedIn> renders its children only for a signed-in user.
SignedIn(si, children) == IF si THEN children ELSE {}

\* Variant: the gate ignores the identity state.
SignedOut_Always(si, children) == children

\* <SignedOut> renders its children only for a signed-out user.
SignedOut(si, children) == IF ~si THEN children ELSE {}

Chrome == {"Sidebar", "Topbar", "UserButton", "SignOutButton"}

\* The components App renders for identity state si at path pa.
App(si, pa) ==
    SignedIn(si, Chrome \cup Routes(SignedInRoutes, pa))
      \cup SignedOut(si, Routes(SignedOutRoutes, pa))

\* Component implementing each embedded-dashboard page.
Component(p) ==
    CASE p = "news" -> "NewsBoard"
      [] p = "portfolio" -> "PortfolioOptimization"
      [] p = "crossborder" -> "CrossBorder"

\* Dashboard pages mounted: those App routes to, and NewsBoard when its
\* parent has mounted it.
MountedAt(si, pa, nm) ==
    LET app == App(si, pa)
    IN  {p \in Pages : Component(p) \in app} \cup (IF nm THEN {"news"} ELSE {})

Mounted == MountedAt(signedIn, path, newsMounted)

\* Variant: the flag survives an unmount.
useState_Kept(old, wasMounted, isMounted) == old

\* useState(false): a component that stays mounted keeps its flag, a newly
\* mounted one starts from false, an unmounted one has no state.
useState(old, wasMounted, isMounted) ==
    IF wasMounted /\ isMounted THEN old ELSE FALSE

\* ------------------------------------------------------------- paths
Paths ==
    { << >>, <<"contacts">>, <<"invoices">>, <<"portfolio">>,
      <<"mutualfunds">>, <<"gdp">>, <<"crossborder">>, <<"form">>,
      <<"bar">>, <<"pie">>, <<"line">>, <<"faq">>, <<"calendar">>,
      <<"sign-in">>, <<"sign-in", "factor-one">>,
      <<"sign-up">>, <<"sign-up", "verify-email-address">>,
      <<"settings">>, <<"portfolio", "edit">>, <<"sign-in-help">> }

NoUrl == "none"

\* ------------------------------------------------------------- state
Init ==
    /\ signedIn \in BOOLEAN
    /\ path \in Paths
    /\ isSidebar = FALSE
    /\ mode = "dark"
    /\ newsMounted = FALSE
    /\ iframeError = [p \in Pages |-> FALSE]
    /\ frameSrc = [p \in Pages |->
                     IF p \in MountedAt(signedIn, path, FALSE)
                       THEN IframeSrc(p) ELSE NoUrl]
    /\ opened = << >>

\* Re-render after the identity state, the path or NewsBoard's parent changed:
\* flags of pages that stay mounted are kept, fresh mounts start from false,
\* and every rendered <iframe> is given its src.
Rerender(si, pa, nm) ==
    LET was == Mounted
        m == MountedAt(si, pa, nm)
        flags == [p \in Pages |-> useState(iframeError[p], p \in was, p \in m)]
    IN  /\ iframeError' = flags
        /\ frameSrc' = [p \in Pages |->
               IF p \in m /\ Elem("iframe", p, IframeSrc(p)) \in RenderPage(p, flags[p])
                 THEN IframeSrc(p) ELSE frameSrc[p]]

\* The identity provider reports a signed-in user.
SignIn ==
    /\ ~signedIn
    /\ signedIn' = TRUE
    /\ Rerender(TRUE, path, newsMounted)
    /\ UNCHANGED <<path, isSidebar, mode, newsMounted, opened>>

\* The "Sign Out" button.
signOut ==
    /\ "SignOutButton" \in App(signedIn, path)
    /\ signedIn' = FALSE
    /\ Rerender(FALSE, path, newsMounted)
    /\ UNCHANGED <<path, isSidebar, mode, newsMounted, opened>>

\* Client-side navigation (sidebar link, address bar, history).
Navigate(pa) ==
    /\ path' = pa
    /\ Rerender(signedIn, pa, newsMounted)
    /\ UNCHANGED <<signedIn, isSidebar, mode, newsMounted, opened>>

\* The setter App hands to Topbar.
setIsSidebar(b) ==
    /\ "Topbar" \in App(signedIn, path)
    /\ isSidebar' = b
    /\ UNCHANGED <<signedIn, path, mode, newsMounted, iframeError, frameSrc, opened>>

\* The theme toggle of the colour-mode context.
toggleColorMode ==
    /\ "Topbar" \in App(signedIn, path)
    /\ mode' = IF mode = "light" THEN "dark" ELSE "light"
    /\ UNCHANGED <<signedIn, path, isSidebar, newsMounted, iframeError, frameSrc, opened>>

\* NewsBoard is mounted by a parent outside App's route table.
MountNewsBoard ==
    /\ ~newsMounted
    /\ newsMounted' = TRUE
    /\ Rerender(signedIn, path, TRUE)
    /\ UNCHANGED <<signedIn, path, isSidebar, mode, opened>>

UnmountNewsBoard ==
    /\ newsMounted
    /\ newsMounted' = FALSE
    /\ Rerender(signedIn, path, FALSE)
    /\ UNCHANGED <<signedIn, path, isSidebar, mode, opened>>

\* Variant: the error handler also touches the shell's sidebar flag.
handleIframeError_Shared(p) ==
    /\ p \in Mounted
    /\ \E e \in RenderPage(p, iframeError[p]) : e.kind = "iframe"
    /\ iframeError' = [iframeError EXCEPT ![p] = TRUE]
    /\ isSidebar' = TRUE
    /\ UNCHANGED <<signedIn, path, mode, newsMounted, frameSrc, opened>>

\* onError of page p's <iframe>: setIframeError(true).
handleIframeError(p) ==
    /\ p \in Mounted
    /\ \E e \in RenderPage(p, iframeError[p]) : e.kind = "iframe"
    /\ iframeError' = [iframeError EXCEPT ![p] = TRUE]
    /\ UNCHANGED <<signedIn, path, isSidebar, mode, newsMounted, frameSrc, opened>>

Log(s, e) == Append(IF Len(s) >= MaxOpened THEN Tail(s) ELSE s, e)

\* Variant: the click also retries the embed.
openInNewTab_Retry(p) ==
    /\ p \in Mounted
    /\ \E e \in RenderPage(p, iframeError[p]) : e.kind = "button"
    /\ opened' = Log(opened, [by |-> p, url |-> OpenUrl(p), target |-> "_blank"])
    /\ iframeError' = [iframeError EXCEPT ![p] = FALSE]
    /\ UNCHANGED <<signedIn, path, isSidebar, mode, newsMounted, frameSrc>>

\* onClick of page p's button: window.open(url, '_blank', 'noopener,noreferrer').
openInNewTab(p) ==
    /\ p \in Mounted
    /\ \E e \in RenderPage(p, iframeError[p]) : e.kind = "button"
    /\ opened' = Log(opened, [by |-> p, url |-> OpenUrl(p), target |-> "_blank"])
    /\ UNCHANGED <<signedIn, path, isSidebar, mode, newsMounted, iframeError, frameSrc>>

Next ==
    \/ SignIn
    \/ signOut
    \/ \E pa \in Paths : Navigate(pa)
    \/ \E b \in BOOLEAN : setIsSidebar(b)
    \/ toggleColorMode
    \/ MountNewsBoard
    \/ UnmountNewsBoard
    \/ \E p \in Pages : handleIframeError(p)
    \/ \E p \in Pages : openInNewTab(p)

Spec == Init /\ [][Next]_vars

TypeOK ==
    /\ signedIn \in BOOLEAN
    /\ path \in Paths
    /\ isSidebar \in BOOLEAN
    /\ mode \in {"light", "dark"}
    /\ newsMounted \in BOOLEAN
    /\ iframeError \in [Pages -> BOOLEAN]
    /\ Len(opened) <= MaxOpened
\* ------------------------------------------------------------ properties
HasFrame(p) == \E e \in RenderPage(p, iframeError[p]) : e.kind = "iframe"

HasPanel(p) == \E e \in RenderPage(p, iframeError[p]) : e.kind \in {"message", "button"}

OpenedBy(p) == \E i \in 1..Len(opened) : opened[i].by = p

\* C1: every mounted dashboard page renders exactly one of {inline frame,
\* fallback panel}, and the fallback panel iff its load-error flag is true.
C1_FrameXorPanel ==
    \A p \in Mounted :
        /\ HasFrame(p) # HasPanel(p)
        /\ HasPanel(p) <=> iframeError[p]

C1_Witness == \E p \in Mounted : iframeError[p] /\ HasPanel(p) /\ ~HasFrame(p)

\* C2: every URL opened by 'Open in New Tab' is the URL the same page passed
\* as the source of its inline frame.
C2_OpenedUrlIsFrameSrc ==
    \A i \in 1..Len(opened) :
        /\ opened[i].url = frameSrc[opened[i].by]
        /\ opened[i].target = "_blank"

C2_Witness == OpenedBy("crossborder") /\ frameSrc["crossborder"] # NoUrl

\* C3: a page is in Embedding when mounted; while it stays mounted its flag
\* changes only from false to true and only by its load-error handler; once
\* in Fallback it stays there and its frame is never rendered again.
C3_OnlyEmbeddingToFallback ==
    /\ \A p \in Mounted : ~iframeError[p]
    /\ [][\A p \in Pages :
            /\ (iframeError'[p] /\ p \notin Mounted) => p \notin Mounted'
            /\ (iframeError[p] /\ p \in Mounted /\ p \in Mounted') =>
                  (iframeError'[p] /\ ~HasFrame(p)')
            /\ (iframeError'[p] # iframeError[p] /\ p \in Mounted /\ p \in Mounted') =>
                  (iframeError'[p] /\ handleIframeError(p))
       ]_vars

C3_Witness ==
    \E p \in Mounted : iframeError[p] /\ OpenedBy(p) /\ isSidebar /\ mode = "light"

\* C4: exactly one of {signed-in view, signed-out view} is rendered.
AuthElements == {"SignIn", "SignUp", "RedirectToSignIn"}

SignedInView == Chrome \subseteq App(signedIn, path)

SignedOutView == App(signedIn, path) \cap AuthElements # {}

C4_ExactlyOneView ==
    /\ SignedInView # SignedOutView
    /\ SignedInView => App(signedIn, path) \cap AuthElements = {}
    /\ SignedOutView => App(signedIn, path) \cap Chrome = {}

C4_Witness == ~signedIn /\ isSidebar /\ SignedOutView /\ ~SignedInView

\* C5: signed out, exactly one of {sign-in form, sign-up form, redirect} is
\* rendered: sign-in under /sign-in, sign-up under /sign-up, the redirect
\* everywhere else, and never a page component.
PageComponents ==
    {"Dashboard", "Contacts", "Invoices", "PortfolioOptimization", "MutualTear",
     "GdpDashboard", "CrossBorder", "Form", "Bar", "Chatbot", "Line", "FAQ",
     "Calendar"}

Under(seg) == Len(path) >= 1 /\ path[1] = seg

C5_SignedOutOneOfThree ==
    ~signedIn =>
        /\ Cardinality(App(signedIn, path) \cap AuthElements) = 1
        /\ App(signedIn, path) \cap PageComponents = {}
        /\ Under("sign-in") => "SignIn" \in App(signedIn, path)
        /\ Under("sign-up") => "SignUp" \in App(signedIn, path)
        /\ (~Under("sign-in") /\ ~Under("sign-up")) =>
              "RedirectToSignIn" \in App(signedIn, path)

C5_Witness ==
    ~signedIn /\ path = <<"portfolio">> /\ frameSrc["portfolio"] # NoUrl
      /\ App(signedIn, path) = {"RedirectToSignIn"}

\* C6: signed in, a mapped path renders exactly its component, an unmapped
\* path renders no page component and no redirect; /portfolio renders the
\* portfolio frame at its fixed URL.
ExpectedComponent ==
    [pa \in {<< >>, <<"contacts">>, <<"invoices">>, <<"portfolio">>,
             <<"mutualfunds">>, <<"gdp">>, <<"crossborder">>, <<"form">>,
             <<"bar">>, <<"pie">>, <<"line">>, <<"faq">>, <<"calendar">>} |->
        CASE pa = << >> -> "Dashboard"
          [] pa = <<"contacts">> -> "Contacts"
          [] pa = <<"invoices">> -> "Invoices"
          [] pa = <<"portfolio">> -> "PortfolioOptimization"
          [] pa = <<"mutualfunds">> -> "MutualTear"
          [] pa = <<"gdp">> -> "GdpDashboard"
          [] pa = <<"crossborder">> -> "CrossBorder"
          [] pa = <<"form">> -> "Form"
          [] pa = <<"bar">> -> "Bar"
          [] pa = <<"pie">> -> "Chatbot"
          [] pa = <<"line">> -> "Line"
          [] pa = <<"faq">> -> "FAQ"
          [] pa = <<"calendar">> -> "Calendar"]

C6_SignedInOnePage ==
    signedIn =>
        /\ Cardinality(App(signedIn, path) \cap PageComponents) <= 1
        /\ path \in DOMAIN ExpectedComponent =>
              App(signedIn, path) \cap PageComponents = {ExpectedComponent[path]}
        /\ path \notin DOMAIN ExpectedComponent =>
              App(signedIn, path) \cap (PageComponents \cup AuthElements) = {}
        /\ path = <<"portfolio">> =>
              /\ "portfolio" \in Mounted
              /\ ~iframeError["portfolio"] =>
                    RenderPage("portfolio", FALSE) = {Elem("iframe", "portfolio", streamlitUrl)}

C6_Witness ==
    /\ signedIn /\ path = <<"sign-in">> /\ App(signedIn, path) = Chrome
    /\ frameSrc["portfolio"] = streamlitUrl

\* C7: in Fallback each page shows an 'Unable to embed ... directly' message
\* naming its own dashboard, with an 'Open in New Tab' button.
Subject(text) ==
    CASE text = "Unable to embed Stock News directly." -> "news"
      [] text = "Unable to embed the Portfolio Optimizer directly." -> "portfolio"
      [] text = "Unable to embed the GDP Dashboard directly." -> "gdp"
      [] OTHER -> "unknown"

C7_MessageNamesOwnDashboard ==
    \A p \in Mounted :
        iframeError[p] =>
            /\ \E e \in RenderPage(p, iframeError[p]) :
                  e.kind = "message" /\ Subject(e.arg) = p
            /\ Elem("button", p, "Open in New Tab") \in RenderPage(p, iframeError[p])

\* C8 as stated: in every state of a mounted page, Embedding included, the
\* open-in-new-tab action is enabled.
C8_OpenAlwaysEnabled == \A p \in Mounted : ENABLED openInNewTab(p)

\* C8 as amended: a mounted page always has an enabled event; the load error
\* exactly in Embedding and open-in-new-tab exactly in Fallback.
C8_OpenEnabledIffFallback ==
    \A p \in Mounted :
        /\ (ENABLED openInNewTab(p)) <=> iframeError[p]
        /\ (ENABLED handleIframeError(p)) <=> ~iframeError[p]

C8_Witness ==
    \E p \in Mounted :
        /\ iframeError[p]
        /\ opened # << >> /\ opened[Len(opened)].by = p
        /\ ENABLED openInNewTab(p)

\* C9: a page that gets mounted is in Embedding with its frame rendered,
\* whatever happened before it was unmounted.
C9_ResetOnRemount ==
    [][\A p \in Pages :
          (p \in Mounted' /\ p \notin Mounted) =>
              /\ ~iframeError'[p]
              /\ Elem("iframe", p, IframeSrc(p)) \in RenderPage(p, iframeError'[p])
      ]_vars

C9_Witness == \E p \in Mounted : ~iframeError[p] /\ OpenedBy(p) /\ HasFrame(p)

\* C10: the sidebar flag starts false and changes only through the setter
\* given to the topbar; a page's flag changes, while mounted, only by its own
\* load-error handler, which leaves the sidebar flag and the other pages'
\* flags alone; navigation, sidebar toggling and the open action leave the
\* flags of pages that stay mounted alone.
KeepsFlags == \A q \in Mounted \cap Mounted' : iframeError'[q] = iframeError[q]

C10_SingleOwner ==
    /\ isSidebar = FALSE
    /\ [][/\ isSidebar' # isSidebar => \E b \in BOOLEAN : setIsSidebar(b)
          /\ \A p \in Pages :
                (iframeError'[p] # iframeError[p] /\ handleIframeError(p)) =>
                    /\ isSidebar' = isSidebar
                    /\ \A q \in Pages \ {p} : iframeError'[q] = iframeError[q]
          /\ (path' # path \/ isSidebar' # isSidebar \/ opened' # opened) => KeepsFlags
          /\ \A q \in Pages :
                (iframeError'[q] # iframeError[q] /\ q \in Mounted /\ q \in Mounted')
                    => handleIframeError(q)
       ]_vars

C10_Witness ==
    /\ isSidebar
    /\ {"news", "portfolio"} \subseteq Mounted
    /\ iframeError["portfolio"] /\ ~iframeError["news"]
    /\ OpenedBy("portfolio")
====
